---- MODULE Spec2Model ----
(***************************************************************************)
(* Bounded-concurrency pool-state initializer of yieldai                   *)
(* (backend/src/core/init.rs, init_pools_state) together with the pieces   *)
(* it calls (core/pools.rs, types.rs, config/mod.rs).                      *)
(*                                                                         *)
(* init_pools_state is one async function.  It builds a stream of futures, *)
(* one per configured pool, runs them through buffer_unordered(cap) and    *)
(* drives them with try_collect.  The futures are polled by the            *)
(* orchestrator itself (nothing is spawned), so the model has one          *)
(* orchestrator that takes the steps of the poll loop, and environment     *)
(* steps in which the answer of an RPC call arrives.                       *)
(***************************************************************************)
EXTENDS Integers, Sequences, FiniteSets

(* ---------------------------- bounds ----------------------------------- *)
MaxPools == 3
MaxCap == 3

(* ---------------------------- state ------------------------------------ *)
VARIABLES
    max_concurrency,  \* the configured concurrency cap
    contract_ok,      \* CONFIG.contract_address parses as an Address
    pools_cfg,        \* CONFIG.toml.pools, after deserialization
    next_pool,        \* position of stream::iter in CONFIG.toml.pools
    pc,               \* position of the future of entry i
    resp,             \* the answer the RPC collaborator gave to the call of entry i
    rpc_calls,        \* number of getPoolDetails calls issued for entry i
    permits,          \* free permits of the semaphore
    pools,            \* the shared DashMap<String, Pool>
    pools_refs,       \* strong count of the Arc around the DashMap
    outcome,          \* "running", or what init_pools_state returned
    result,           \* the registry handed to the caller
    app_state,        \* the AppState of the process, once AppState::new ran
    response,         \* body of the last answer to GET /pools
    token0_decimals,  \* tick_to_price: argument token0_decimals
    token1_decimals,  \* tick_to_price: argument token1_decimals
    diff_decimals     \* tick_to_price: the local diff_decimals

\* the process around init_pools_state
app_vars == <<app_state, response>>

\* the arguments and the local of tick_to_price
math_vars == <<token0_decimals, token1_decimals, diff_decimals>>

\* init_pools_state itself
core_vars == <<max_concurrency, contract_ok, pools_cfg, next_pool, pc,
               resp, rpc_calls, permits, pools, pools_refs, outcome, result>>

vars == <<core_vars, app_vars, math_vars>>

(* ---------------------------- data ------------------------------------- *)
\* An address string is a sequence of characters.  The [[pools]] tables a
\* configuration file is made of: two spellings of one address with
\* different tags, a second address, and a string that is not hexadecimal.
RawPools ==
    { << <<"a", "1">>, "UniswapV3" >>,
      << <<"A", "1">>, "PancakeSwapV3" >>,
      << <<"b", "2">>, "UniswapV3" >>,
      << <<"g", "1">>, "PancakeSwapV3" >> }

\* what the caller holds: nothing, or the map of an Ok(..) return
NoRegistry == [some |-> FALSE]

Returned(m) == [some |-> TRUE, registry |-> m]

EmptyMap == [k \in {} |-> k]

SeqsUpTo(S, n) == UNION { [1..k -> S] : k \in 0..n }

to_lowercase_char(c) ==
    CASE c = "A" -> "a"
      [] c = "B" -> "b"
      [] OTHER -> c

\* types.rs: s.to_lowercase()
lowercase_address(s) == [k \in DOMAIN s |-> to_lowercase_char(s[k])]

IsHexDigit(c) == c \in {"0", "1", "2", "a", "b", "A", "B"}

\* Address::from_str(pool_address): every character is a hex digit
AddressFromStrOk(s) == \A k \in DOMAIN s : IsHexDigit(s[k])

\* the bytes of the parsed Address (hex digits are case-insensitive)
AddressFromStr(s) == lowercase_address(s)

to_checksum_char(c) ==
    CASE c = "a" -> "A"
      [] c = "b" -> "B"
      [] OTHER -> c

\* Address::to_string(): the checksummed rendering, letters in upper case
AddressToString(a) == [k \in DOMAIN a |-> to_checksum_char(a[k])]

\* serde deserialization of one [[pools]] table
PoolConfig(raw, dex) == [address |-> lowercase_address(raw), dex_type |-> dex]

NumPools == Len(pools_cfg)

\* crate::config::MAX_ALLOWED_THREADS, the limit of the semaphore and of
\* buffer_unordered
MAX_ALLOWED_THREADS_off == max_concurrency + 1

MAX_ALLOWED_THREADS == max_concurrency

\* the Pool built by fetch_pool_blockchain_details for entry i
PoolOf(i) ==
    [address  |-> AddressToString(AddressFromStr(pools_cfg[i].address)),
     dex_type |-> pools_cfg[i].dex_type]

\* a fetch that checks the contract address only
ParsesOk_noaddr(i) == contract_ok

\* the two Address::from_str calls that precede the contract call
ParsesOk(i) == contract_ok /\ AddressFromStrOk(pools_cfg[i].address)

\* an insert that replaces the map by the single new entry
Insert_replace(m, k, v) == [x \in {k} |-> v]

\* an insert that keeps the entry that is already there
Insert_keepfirst(m, k, v) ==
    [x \in (DOMAIN m) \cup {k} |-> IF x \in DOMAIN m THEN m[x] ELSE v]

\* DashMap::insert
Insert(m, k, v) == [x \in (DOMAIN m) \cup {k} |-> IF x = k THEN v ELSE m[x]]

\* the futures held by buffer_unordered (its in_progress_queue)
InProgress == { i \in 1..NumPools : pc[i] \in {"queued", "fetching"} }

\* the futures that hold a semaphore permit
PermitHolders == { i \in 1..NumPools : pc[i] = "fetching" }

\* a buffer that admits one future more than the limit
BufferHasRoom_offbyone ==
    next_pool <= NumPools /\ Cardinality(InProgress) <= MAX_ALLOWED_THREADS

\* a buffer that takes the next entry only when it is empty
BufferHasRoom_single == next_pool <= NumPools /\ InProgress = {}

\* buffer_unordered pulls from the stream while it has room
BufferHasRoom == next_pool <= NumPools /\ Cardinality(InProgress) < MAX_ALLOWED_THREADS

\* AppState before AppState::new has returned, and after its expect() panicked
NotBuilt == [phase |-> "starting"]

Aborted == [phase |-> "aborted"]

\* the AppState that AppState::new returns
AppState(m) == [phase |-> "serving", pools |-> m]

NoResponse == [sent |-> FALSE]

NotComputed == [computed |-> FALSE]

\* the values of a u8
U8 == 0..255

\* the values of an i8
I8 == -128..127

\* `x as i8` for a u8 x: the same eight bits read as two's complement
as_i8(x) == IF x >= 128 THEN x - 256 ELSE x

\* the eight low bits of the integer n read as an i8
wrapping_i8(n) == as_i8(n % 256)

\* what `a - b` on i8 gives: the difference when it fits; when it does not,
\* a panic in a build with overflow checks and the wrapped value without
SubI8(a, b) ==
    IF a - b \in I8
    THEN { [computed |-> TRUE, panicked |-> FALSE, value |-> a - b] }
    ELSE { [computed |-> TRUE, panicked |-> TRUE, value |-> 0],
           [computed |-> TRUE, panicked |-> FALSE, value |-> wrapping_i8(a - b)] }

(* ---------------------------- Init ------------------------------------- *)
Init ==
    /\ max_concurrency \in 1..MaxCap
    /\ contract_ok \in BOOLEAN
    /\ \E raw \in SeqsUpTo(RawPools, MaxPools) :
          pools_cfg = [i \in DOMAIN raw |-> PoolConfig(raw[i][1], raw[i][2])]
    /\ next_pool = 1
    /\ pc = [i \in 1..Len(pools_cfg) |-> "pending"]
    /\ resp = [i \in 1..Len(pools_cfg) |-> "none"]
    /\ rpc_calls = [i \in 1..Len(pools_cfg) |-> 0]
    /\ permits = MAX_ALLOWED_THREADS
    /\ pools = EmptyMap
    /\ pools_refs = 1
    /\ outcome = "running"
    /\ result = NoRegistry
    /\ app_state = NotBuilt
    /\ response = NoResponse
    /\ token0_decimals = 0
    /\ token1_decimals = 0
    /\ diff_decimals = NotComputed

(* ---------------------------- actions ---------------------------------- *)
\* an error return after which the permits of the tasks that ended stay taken
ReturnErr_leak(i) ==
    /\ pc' = [j \in 1..NumPools |->
                 IF j = i THEN "failed"
                 ELSE IF pc[j] = "queued" THEN "dropped"
                 ELSE IF pc[j] = "fetching" THEN "cancelled"
                 ELSE pc[j]]
    /\ permits' = permits
    /\ pools_refs' = 0
    /\ outcome' = "err"
    /\ result' = NoRegistry

\* the future of entry i returns Err: its own _permit is dropped; `?` after
\* try_collect returns the error from the function; the stream and every
\* future still in it are dropped, with the permits they hold, then the
\* semaphore and the map.
ReturnErr(i) ==
    /\ pc' = [j \in 1..NumPools |->
                 IF j = i THEN "failed"
                 ELSE IF pc[j] = "queued" THEN "dropped"
                 ELSE IF pc[j] = "fetching" THEN "cancelled"
                 ELSE pc[j]]
    /\ permits' = permits + Cardinality(PermitHolders)
    /\ pools_refs' = 0
    /\ outcome' = "err"
    /\ result' = NoRegistry

\* a stream that is still polled after the error has been returned
Spawn_after ==
    /\ BufferHasRoom
    /\ pc' = [pc EXCEPT ![next_pool] = "queued"]
    /\ next_pool' = next_pool + 1
    /\ pools_refs' = pools_refs + 1
    /\ UNCHANGED <<app_vars, math_vars, max_concurrency, contract_ok, pools_cfg, resp,
                   rpc_calls, permits, pools, outcome, result>>

\* buffer_unordered takes the next pool_config from the stream; the map
\* closure clones the Arcs and builds the future.
Spawn ==
    /\ outcome = "running"
    /\ BufferHasRoom
    /\ pc' = [pc EXCEPT ![next_pool] = "queued"]
    /\ next_pool' = next_pool + 1
    /\ pools_refs' = pools_refs + 1
    /\ UNCHANGED <<app_vars, math_vars, max_concurrency, contract_ok, pools_cfg, resp,
                   rpc_calls, permits, pools, outcome, result>>

\* first poll of the future of entry i: acquire a permit, parse the
\* addresses, issue the contract call.
Start(i) ==
    /\ outcome = "running"
    /\ ~BufferHasRoom
    /\ pc[i] = "queued"
    /\ permits > 0
    /\ IF ParsesOk(i)
       THEN /\ pc' = [pc EXCEPT ![i] = "fetching"]
            /\ permits' = permits - 1
            /\ rpc_calls' = [rpc_calls EXCEPT ![i] = @ + 1]
            /\ UNCHANGED <<pools_refs, outcome, result>>
       ELSE /\ ReturnErr(i)
            /\ UNCHANGED rpc_calls
    /\ UNCHANGED <<app_vars, math_vars, max_concurrency, contract_ok, pools_cfg,
                   next_pool, resp, pools>>

\* a task that goes on to its fetch without a permit
AcquireFail_ignore(i) ==
    /\ outcome = "running"
    /\ ~BufferHasRoom
    /\ pc[i] = "queued"
    /\ ParsesOk(i)
    /\ pc' = [pc EXCEPT ![i] = "fetching"]
    /\ rpc_calls' = [rpc_calls EXCEPT ![i] = @ + 1]
    /\ UNCHANGED <<app_vars, math_vars, max_concurrency, contract_ok, pools_cfg,
                   next_pool, resp, permits, pools, pools_refs, outcome, result>>

\* first poll of the future of entry i when semaphore.acquire() reports an
\* error: map_err and `?` return it before the fetch
AcquireFail(i) ==
    /\ outcome = "running"
    /\ ~BufferHasRoom
    /\ pc[i] = "queued"
    /\ ReturnErr(i)
    /\ UNCHANGED <<app_vars, math_vars, max_concurrency, contract_ok, pools_cfg,
                   next_pool, resp, rpc_calls, pools>>

\* the RPC collaborator answers the call of entry i
RpcReturn(i) ==
    /\ pc[i] = "fetching"
    /\ resp[i] = "none"
    /\ \E answer \in {"ok", "err"} : resp' = [resp EXCEPT ![i] = answer]
    /\ UNCHANGED <<app_vars, math_vars, max_concurrency, contract_ok, pools_cfg,
                   next_pool, pc, rpc_calls, permits, pools, pools_refs,
                   outcome, result>>

\* a detached task that still stores the pool of a late answer
LateRpcReturn_insert(i) ==
    /\ pc[i] = "cancelled"
    /\ resp[i] = "none"
    /\ \E answer \in {"ok", "err"} : resp' = [resp EXCEPT ![i] = answer]
    /\ pc' = [pc EXCEPT ![i] = "discarded"]
    /\ pools' = IF resp'[i] = "ok"
                THEN Insert(pools, pools_cfg[i].address, PoolOf(i))
                ELSE pools
    /\ UNCHANGED <<app_vars, math_vars, max_concurrency, contract_ok, pools_cfg,
                   next_pool, rpc_calls, permits, pools_refs, outcome, result>>

\* the answer of a call whose future was dropped arrives; nobody reads it
LateRpcReturn(i) ==
    /\ pc[i] = "cancelled"
    /\ resp[i] = "none"
    /\ \E answer \in {"ok", "err"} : resp' = [resp EXCEPT ![i] = answer]
    /\ pc' = [pc EXCEPT ![i] = "discarded"]
    /\ UNCHANGED <<app_vars, math_vars, max_concurrency, contract_ok, pools_cfg,
                   next_pool, rpc_calls, permits, pools, pools_refs,
                   outcome, result>>

\* a task that never gives its permit back
TaskOk_leak(i) ==
    /\ pools' = Insert(pools, pools_cfg[i].address, PoolOf(i))
    /\ pc' = [pc EXCEPT ![i] = "done"]
    /\ permits' = permits
    /\ pools_refs' = pools_refs - 1
    /\ UNCHANGED <<outcome, result>>

\* a task that keeps its reference to the map after it has returned
TaskOk_holdref(i) ==
    /\ pools' = Insert(pools, pools_cfg[i].address, PoolOf(i))
    /\ pc' = [pc EXCEPT ![i] = "done"]
    /\ permits' = permits + 1
    /\ pools_refs' = pools_refs
    /\ UNCHANGED <<outcome, result>>

\* match arm Ok(pool_details): insert, return Ok(()), drop permit and Arcs
TaskOk(i) ==
    /\ pools' = Insert(pools, pools_cfg[i].address, PoolOf(i))
    /\ pc' = [pc EXCEPT ![i] = "done"]
    /\ permits' = permits + 1
    /\ pools_refs' = pools_refs - 1
    /\ UNCHANGED <<outcome, result>>

\* an error that is swallowed: the task ends and the others go on
TaskErr_swallow(i) ==
    /\ pc' = [pc EXCEPT ![i] = "failed"]
    /\ permits' = permits + 1
    /\ pools_refs' = pools_refs - 1
    /\ UNCHANGED <<outcome, result, pools>>

\* a failed fetch that is tried a second time
TaskErr_retry(i) ==
    /\ IF rpc_calls[i] < 2
       THEN /\ pc' = [pc EXCEPT ![i] = "queued"]
            /\ permits' = permits + 1
            /\ UNCHANGED <<pools_refs, outcome, result>>
       ELSE ReturnErr(i)
    /\ UNCHANGED pools

\* an error arm that stores the pool of the failed fetch before it returns
TaskErr_store(i) ==
    /\ ReturnErr(i)
    /\ pools' = Insert(pools, pools_cfg[i].address, PoolOf(i))

\* match arm Err(e): the error goes up through try_collect and `?`
TaskErr(i) ==
    /\ ReturnErr(i)
    /\ UNCHANGED pools

\* an orchestrator that reports the error only when nothing is in flight
PollComplete_waitall(i) ==
    /\ outcome = "running"
    /\ ~BufferHasRoom
    /\ pc[i] = "fetching"
    /\ resp[i] # "none"
    /\ resp[i] = "err" => \A j \in InProgress : pc[j] = "fetching" /\ resp[j] # "none"
    /\ IF resp[i] = "ok" THEN TaskOk(i) ELSE TaskErr(i)
    /\ UNCHANGED <<app_vars, math_vars, max_concurrency, contract_ok, pools_cfg,
                   next_pool, resp, rpc_calls>>

\* poll of the future of entry i after the answer of its call has arrived
PollComplete(i) ==
    /\ outcome = "running"
    /\ ~BufferHasRoom
    /\ pc[i] = "fetching"
    /\ resp[i] # "none"
    /\ IF resp[i] = "ok" THEN TaskOk(i) ELSE TaskErr(i)
    /\ UNCHANGED <<app_vars, math_vars, max_concurrency, contract_ok, pools_cfg,
                   next_pool, resp, rpc_calls>>

\* a Finish that fails on an empty configuration
Finish_nonempty ==
    /\ outcome = "running"
    /\ next_pool > NumPools
    /\ InProgress = {}
    /\ IF pools_refs = 1 /\ NumPools > 0
       THEN outcome' = "ok" /\ result' = Returned(pools) /\ pools_refs' = 0
       ELSE outcome' = "err" /\ result' = NoRegistry /\ pools_refs' = pools_refs - 1
    /\ UNCHANGED <<app_vars, math_vars, max_concurrency, contract_ok, pools_cfg,
                   next_pool, pc, resp, rpc_calls, permits, pools>>

\* the stream is exhausted and the buffer empty: try_collect returns Ok,
\* Arc::try_unwrap extracts the map
Finish ==
    /\ outcome = "running"
    /\ next_pool > NumPools
    /\ InProgress = {}
    /\ IF pools_refs = 1
       THEN outcome' = "ok" /\ result' = Returned(pools) /\ pools_refs' = 0
       ELSE outcome' = "err" /\ result' = NoRegistry /\ pools_refs' = pools_refs - 1
    /\ UNCHANGED <<app_vars, math_vars, max_concurrency, contract_ok, pools_cfg,
                   next_pool, pc, resp, rpc_calls, permits, pools>>

\* an AppState::new that serves whatever was fetched when the
\* initialization failed
AppStateNew_partial ==
    /\ app_state = NotBuilt
    /\ outcome # "running"
    /\ app_state' = IF outcome = "ok" THEN AppState(result.registry)
                    ELSE AppState(pools)
    /\ UNCHANGED <<core_vars, math_vars, response>>

\* state.rs, AppState::new after init_ai_agent and init_evm_provider have
\* succeeded: init_pools_state(..).await.expect(..), then Self { pools, .. }
AppStateNew ==
    /\ app_state = NotBuilt
    /\ outcome # "running"
    /\ app_state' = IF outcome = "ok" THEN AppState(result.registry)
                    ELSE Aborted
    /\ UNCHANGED <<core_vars, math_vars, response>>

\* the orders in which an iteration may visit the keys S
Orders(S) ==
    { f \in [1..Cardinality(S) -> S] : \A x \in S : \E k \in DOMAIN f : f[k] = x }

\* a handler that takes the entries out of the map while listing them
GetPools_drain ==
    /\ app_state.phase = "serving"
    /\ \E order \in Orders(DOMAIN app_state.pools) :
          response' = [sent |-> TRUE,
                       body |-> [k \in DOMAIN order |-> app_state.pools[order[k]]]]
    /\ app_state' = AppState(EmptyMap)
    /\ UNCHANGED <<core_vars, math_vars>>

\* api/mod.rs, get_pools_service: clone every value of app_state.pools
\* into a Vec and send it
GetPools ==
    /\ app_state.phase = "serving"
    /\ \E order \in Orders(DOMAIN app_state.pools) :
          response' = [sent |-> TRUE,
                       body |-> [k \in DOMAIN order |-> app_state.pools[order[k]]]]
    /\ UNCHANGED <<core_vars, math_vars, app_state>>

Next ==
    \/ Spawn
    \/ \E i \in 1..NumPools : Start(i)
    \/ \E i \in 1..NumPools : RpcReturn(i)
    \/ \E i \in 1..NumPools : LateRpcReturn(i)
    \/ \E i \in 1..NumPools : PollComplete(i)
    \/ Finish

Spec == Init /\ [][Next]_vars

\* init_pools_state together with its caller and the listing endpoint
AppNext ==
    \/ Next
    \/ AppStateNew
    \/ GetPools

AppSpec == Init /\ [][AppNext]_vars

\* the steps init_pools_state takes itself, as opposed to the network's
Orchestrator ==
    \/ Spawn
    \/ \E i \in 1..NumPools : Start(i)
    \/ \E i \in 1..NumPools : PollComplete(i)
    \/ Finish

\* the executor keeps polling init_pools_state while it can make progress;
\* nothing is assumed about the network
FairSpec == Spec /\ WF_vars(Orchestrator)

\* in addition every issued RPC call eventually returns
LiveSpec == FairSpec /\ WF_vars(\E i \in 1..NumPools : RpcReturn(i))

\* init_pools_state over a semaphore that may report an acquisition failure
GateNext ==
    \/ Next
    \/ \E i \in 1..NumPools : AcquireFail(i)

GateSpec == Init /\ [][GateNext]_vars

\* a call of tick_to_price with any two u8 arguments, outside of a run of
\* init_pools_state
MathInit ==
    /\ max_concurrency = 1
    /\ contract_ok = TRUE
    /\ pools_cfg = <<>>
    /\ next_pool = 1
    /\ pc = <<>>
    /\ resp = <<>>
    /\ rpc_calls = <<>>
    /\ permits = MAX_ALLOWED_THREADS
    /\ pools = EmptyMap
    /\ pools_refs = 1
    /\ outcome = "running"
    /\ result = NoRegistry
    /\ app_state = NotBuilt
    /\ response = NoResponse
    /\ token0_decimals \in U8
    /\ token1_decimals \in U8
    /\ diff_decimals = NotComputed

\* amm_math.rs: let diff_decimals = token1_decimals as i8 - token0_decimals as i8
tick_to_price ==
    /\ diff_decimals = NotComputed
    /\ diff_decimals' \in SubI8(as_i8(token1_decimals), as_i8(token0_decimals))
    /\ UNCHANGED <<core_vars, app_vars, token0_decimals, token1_decimals>>

MathNext == tick_to_price

MathSpec == MathInit /\ [][MathNext]_vars

(* ---------------------------- properties ------------------------------- *)
\* the fetch_pool_blockchain_details calls that have begun and not returned
InFlight == { i \in 1..NumPools : pc[i] = "fetching" }

\* C1: in every reachable state the number of RPC fetches in flight is at
\* most the configured concurrency cap.
C1_ConcurrencyBound == Cardinality(InFlight) <= max_concurrency

\* the cap binds: cap fetches are in flight while an entry still waits
C1_Witness ==
    /\ Cardinality(InFlight) = max_concurrency
    /\ max_concurrency = 2
    /\ next_pool <= NumPools

\* the fetch of entry i cannot succeed
FetchFails(i) == ~ParsesOk(i) \/ resp[i] = "err"

\* C2: initialization is atomic.  A registry is handed to the caller only
\* together with success, and then every configured fetch has succeeded;
\* when a fetch has failed the call returns an error and no registry.
C2_Atomic ==
    /\ (result # NoRegistry) <=> (outcome = "ok")
    /\ outcome = "ok" =>
          \A i \in 1..NumPools : ~FetchFails(i) /\ pc[i] = "done" /\ resp[i] = "ok"
    /\ (\E i \in 1..NumPools : pc[i] = "failed") =>
          outcome = "err" /\ result = NoRegistry

\* a fetch failed after another pool had already been stored
C2_Witness ==
    /\ outcome = "err"
    /\ result = NoRegistry
    /\ \E i, j \in 1..NumPools :
          pc[i] = "failed" /\ resp[i] = "err" /\ pc[j] = "done"
    /\ DOMAIN pools # {}

ConfiguredAddresses == { pools_cfg[i].address : i \in 1..NumPools }

\* C3 as stated: on success the registry has exactly N entries, one per
\* configured address.
C3_ExactlyN ==
    outcome = "ok" =>
        /\ Cardinality(DOMAIN result.registry) = NumPools
        /\ DOMAIN result.registry = ConfiguredAddresses

\* C3 (amended): on success the keys of the registry are exactly the
\* configured addresses, one entry per distinct address; the registry has N
\* entries when the N configured addresses are pairwise distinct.
C3_OnePerDistinctAddress ==
    outcome = "ok" =>
        /\ DOMAIN result.registry = ConfiguredAddresses
        /\ (\A i, j \in 1..NumPools :
               i # j => pools_cfg[i].address # pools_cfg[j].address)
             => Cardinality(DOMAIN result.registry) = NumPools

\* success with a cap below the number of pools and several entries
C3_Witness ==
    /\ outcome = "ok"
    /\ max_concurrency < NumPools
    /\ Cardinality(DOMAIN result.registry) = 2
    /\ NumPools = 3

\* a failed answer is waiting to be seen by the orchestrator
FailureArrived ==
    /\ outcome = "running"
    /\ \E i \in 1..NumPools : pc[i] = "fetching" /\ resp[i] = "err"

\* C4: fail-fast.  Once a fetch has completed with a failure the call
\* returns the error, whether or not the other calls in flight ever return.
C4_FailFast == FailureArrived ~> (outcome = "err")

\* the error was returned while another call had not been answered
C4_Witness ==
    /\ outcome = "err"
    /\ \E i, j \in 1..NumPools :
          /\ pc[i] = "failed" /\ resp[i] = "err"
          /\ pc[j] = "cancelled" /\ resp[j] = "none"

\* C5: a decided failure is stable.  After the error has been returned no
\* step (in particular no late completion of an outstanding call) changes
\* the outcome, hands a registry to the caller or writes to the registry.
C5_FailureStable ==
    [][outcome = "err" =>
         outcome' = "err" /\ result' = NoRegistry /\ pools' = pools]_vars

\* after the failure one outstanding call succeeded and another failed
C5_Witness ==
    /\ outcome = "err"
    /\ result = NoRegistry
    /\ \E i, j \in 1..NumPools :
          /\ pc[i] = "discarded" /\ resp[i] = "ok"
          /\ pc[j] = "discarded" /\ resp[j] = "err"

\* a future that waits for a permit can get one
NoBlockedAcquire ==
    \A i \in 1..NumPools :
        (outcome = "running" /\ pc[i] = "queued") => permits > 0

\* C6: if every issued RPC call eventually returns, init_pools_state
\* eventually returns, and no future ever waits for a permit that is not
\* there.
C6_Terminates == <>(outcome # "running") /\ []NoBlockedAcquire

\* the call returned after fetches had to wait for their turn
C6_Witness ==
    /\ outcome = "ok"
    /\ max_concurrency < NumPools
    /\ \A i \in 1..NumPools : pc[i] = "done"

\* C7: with no configured pool the call succeeds with an empty registry,
\* takes no permit and issues no RPC call.
C7_EmptyConfig ==
    /\ [](NumPools = 0 =>
            /\ outcome \in {"running", "ok"}
            /\ outcome = "ok" => result = Returned(EmptyMap)
            /\ permits = max_concurrency
            /\ pools = EmptyMap
            /\ rpc_calls = EmptyMap)
    /\ (NumPools = 0) ~> (outcome = "ok" /\ result = Returned(EmptyMap))

C7_Witness ==
    /\ NumPools = 0
    /\ outcome = "ok"
    /\ result = Returned(EmptyMap)
    /\ permits = max_concurrency

\* the ways the RPC collaborator may answer the calls of all entries that
\* agree with the answers it gave in this run
StubsOfRun ==
    { stub \in [1..NumPools -> {"ok", "err"}] :
        \A i \in 1..NumPools : resp[i] # "none" => stub[i] = resp[i] }

\* fetching the pools one after another in configuration order against a
\* collaborator that answers the call of entry i with stub[i]
RECURSIVE SequentialFetch(_, _, _)
SequentialFetch(i, m, stub) ==
    IF i > NumPools THEN <<"ok", Returned(m)>>
    ELSE IF ~ParsesOk(i) \/ stub[i] = "err" THEN <<"err", NoRegistry>>
    ELSE SequentialFetch(i + 1, Insert(m, pools_cfg[i].address, PoolOf(i)), stub)

\* C8: with cap 1 the call returns what sequential fetching returns for
\* the same configured sequence and the same answers of the RPC calls.
C8_CapOneIsSequential ==
    (max_concurrency = 1 /\ outcome # "running") =>
        \A stub \in StubsOfRun :
            <<outcome, result>> = SequentialFetch(1, EmptyMap, stub)

\* cap 1, success, and an address configured twice with different tags
C8_Witness ==
    /\ max_concurrency = 1
    /\ outcome = "ok"
    /\ NumPools = 3
    /\ \E i, j \in 1..NumPools :
          /\ i < j
          /\ pools_cfg[i].address = pools_cfg[j].address
          /\ pools_cfg[i].dex_type # pools_cfg[j].dex_type

\* C9: no retry.  At most one RPC call is issued per configured entry, a
\* failed entry stays failed and is not fetched again, and its failure
\* fails the call.
C9_NoRetry ==
    /\ [](\A i \in 1..NumPools :
            /\ rpc_calls[i] <= 1
            /\ pc[i] = "failed" => outcome = "err")
    /\ [][\A i \in 1..NumPools :
            pc[i] = "failed" =>
                pc'[i] = "failed" /\ rpc_calls'[i] = rpc_calls[i]]_vars

C9_Witness ==
    \E i \in 1..NumPools :
        pc[i] = "failed" /\ resp[i] = "err" /\ rpc_calls[i] = 1 /\ outcome = "err"

Unstarted(i) == i <= NumPools /\ pc[i] \in {"pending", "queued"}

\* entry i is the first that has not been started and a slot is free
SlotFreeFor(i) ==
    /\ outcome = "running"
    /\ Cardinality(InFlight) < max_concurrency
    /\ Unstarted(i)
    /\ \A j \in 1..(i - 1) : ~Unstarted(j)

\* C10: slots are work-conserving.  While no failure is observed, a free
\* slot and an entry that has not been started lead to that entry being
\* started; and when the buffer has room (a fetch has completed and an
\* entry is pending) the next thing the orchestrator does is take the
\* pending entry.
C10_WorkConserving ==
    /\ \A i \in 1..MaxPools :
          SlotFreeFor(i) ~> (~Unstarted(i) \/ outcome = "err")
    /\ [][(BufferHasRoom /\ outcome = "running" /\ pc' # pc)
            => next_pool' = next_pool + 1]_vars

\* a fetch has completed, a slot is free and an entry is still pending
C10_Witness ==
    /\ outcome = "running"
    /\ Cardinality(InFlight) < max_concurrency
    /\ next_pool <= NumPools
    /\ \E j \in 1..NumPools : pc[j] = "done"

\* the future of entry i returns Ok(()) in this step, having inserted
Inserts(i) == pc[i] = "fetching" /\ pc'[i] = "done"

\* another entry with the address of entry i has already inserted
WrittenBefore(i) ==
    \E j \in 1..NumPools :
        j # i /\ pc[j] = "done" /\ pools_cfg[j].address = pools_cfg[i].address

\* C11 as stated: no insertion writes a key that is already in the registry.
C11_WriteOnce ==
    [][\A i \in 1..NumPools :
         Inserts(i) => pools_cfg[i].address \notin DOMAIN pools]_vars

\* C11 (amended): every insertion writes the record of its own entry under
\* that entry's address and leaves the other keys alone; the key is already
\* present exactly when another configured entry has the same address and
\* has inserted before, and then its record is replaced.  With pairwise
\* distinct configured addresses every key is written exactly once.
C11_WriteOncePerEntry ==
    [][\A i \in 1..NumPools :
         Inserts(i) =>
            /\ pools' = Insert(pools, pools_cfg[i].address, PoolOf(i))
            /\ pools'[pools_cfg[i].address] = PoolOf(i)
            /\ \A k \in DOMAIN pools :
                  k # pools_cfg[i].address => k \in DOMAIN pools' /\ pools'[k] = pools[k]
            /\ (pools_cfg[i].address \in DOMAIN pools) <=> WrittenBefore(i)]_vars

\* two entries with one address and different tags have both inserted
C11_Witness ==
    \E i, j \in 1..NumPools :
        /\ i # j
        /\ pc[i] = "done" /\ pc[j] = "done"
        /\ pools_cfg[i].address = pools_cfg[j].address
        /\ pools_cfg[i].dex_type # pools_cfg[j].dex_type
        /\ pools[pools_cfg[i].address].dex_type = pools_cfg[i].dex_type

\* the configured address of entry i is not a chain address
InvalidAddress(i) == ~AddressFromStrOk(pools_cfg[i].address)

\* C12: a configured address that does not parse is fatal.  No RPC call is
\* ever issued for its entry, its task never fetches or inserts, the call
\* never succeeds, and once its task has run the call has returned an error
\* and no registry.
C12_InvalidAddressFatal ==
    \A i \in 1..NumPools :
        InvalidAddress(i) =>
            /\ rpc_calls[i] = 0
            /\ resp[i] = "none"
            /\ pc[i] \in {"pending", "queued", "dropped", "failed"}
            /\ outcome # "ok"
            /\ pc[i] = "failed" => outcome = "err" /\ result = NoRegistry

\* the task of an entry with a bad address failed although the contract
\* address is fine, after another pool had been fetched
C12_Witness ==
    \E i, j \in 1..NumPools :
        /\ InvalidAddress(i)
        /\ contract_ok
        /\ pc[i] = "failed"
        /\ rpc_calls[i] = 0
        /\ pc[j] = "done"
        /\ outcome = "err"
        /\ result = NoRegistry

\* C13: the registry is visible to the process only after init_pools_state
\* has returned success, that is after every configured fetch has completed
\* successfully, and it is the returned registry; when the call returns an
\* error the startup aborts, stays aborted, and nothing is ever served.
C13_VisibleOnlyAfterSuccess ==
    /\ [](app_state.phase = "serving" =>
            /\ outcome = "ok"
            /\ app_state.pools = result.registry
            /\ \A i \in 1..NumPools : pc[i] = "done" /\ resp[i] = "ok")
    /\ [](outcome = "running" => app_state = NotBuilt)
    /\ [](outcome = "err" => app_state \in {NotBuilt, Aborted})
    /\ [](response.sent => app_state.phase = "serving" /\ outcome = "ok")
    /\ [][app_state = Aborted => app_state' = Aborted /\ response' = NoResponse]_vars

\* the startup was aborted although pools had already been fetched
C13_Witness ==
    /\ app_state = Aborted
    /\ outcome = "err"
    /\ DOMAIN pools # {}
    /\ response = NoResponse

\* C14: after initialization the registry is read-only.  Handling GET /pools
\* any number of times leaves the registry as it is, and each answer lists
\* exactly one record per registry entry.
C14_ReadOnlyListing ==
    /\ [][app_state.phase = "serving" => app_state' = app_state]_vars
    /\ [](response.sent =>
            /\ Len(response.body) = Cardinality(DOMAIN app_state.pools)
            /\ \A k \in DOMAIN app_state.pools :
                  Cardinality({ n \in DOMAIN response.body :
                                  response.body[n] = app_state.pools[k] }) = 1
            /\ \A n \in DOMAIN response.body :
                  \E k \in DOMAIN app_state.pools :
                     response.body[n] = app_state.pools[k])

\* a listing of a registry of two pools has been sent
C14_Witness ==
    /\ response.sent
    /\ Len(response.body) = 2
    /\ Cardinality(DOMAIN app_state.pools) = 2
    /\ response.body[1] # response.body[2]

\* the first poll of the task of entry i ends in this step without a permit
\* although its addresses parse: the acquisition failed
AcquireFailed(i) == pc[i] = "queued" /\ pc'[i] = "failed" /\ ParsesOk(i)

\* C15: a task to which the semaphore reports an acquisition failure issues
\* no RPC call and inserts nothing, and init_pools_state returns an error.
\* An RPC call is only ever issued in a step that takes a permit.
C15_AcquireFailureFatal ==
    /\ [][\A i \in 1..NumPools :
            /\ AcquireFailed(i) =>
                  /\ rpc_calls' = rpc_calls
                  /\ pools' = pools
                  /\ outcome' = "err"
                  /\ result' = NoRegistry
            /\ rpc_calls'[i] > rpc_calls[i] => permits' = permits - 1]_vars
    /\ [](\A i \in 1..NumPools :
            (pc[i] = "failed" /\ rpc_calls[i] = 0) =>
                outcome = "err" /\ result = NoRegistry)

\* an acquisition failed while a permit was free and a pool had been stored
C15_Witness ==
    \E i, j \in 1..NumPools :
        /\ pc[i] = "failed"
        /\ ParsesOk(i)
        /\ rpc_calls[i] = 0
        /\ pc[j] = "done"
        /\ outcome = "err"
        /\ result = NoRegistry

\* C16: for all token0_decimals and token1_decimals in 0..255 the decimal
\* adjustment of tick_to_price is the signed integer difference
\* token1_decimals - token0_decimals, and computing it neither overflows nor
\* crashes.
C16_SignedDifference ==
    diff_decimals.computed =>
        /\ ~diff_decimals.panicked
        /\ diff_decimals.value = token1_decimals - token0_decimals

\* entry i has not been started: it is still in the stream, or its future
\* was dropped before its first poll
NotStarted(i) == pc[i] \in {"pending", "dropped"}

\* C17: once the first task failure has been yielded to the orchestrator no
\* entry that had not been started is ever started: nothing is taken from
\* the stream, no permit is taken and no RPC call is issued, neither in the
\* step that yields the failure nor after it.
C17_NoStartAfterFailure ==
    [][(outcome = "err" \/ outcome' = "err") =>
          /\ rpc_calls' = rpc_calls
          /\ next_pool' = next_pool
          /\ permits' >= permits
          /\ \A i \in 1..NumPools :
                /\ pc[i] = "pending" => pc'[i] = "pending"
                /\ pc[i] = "queued" => pc'[i] \in {"dropped", "failed"}
                /\ pc[i] = "dropped" => pc'[i] = "dropped"
                /\ (NotStarted(i) /\ outcome = "err") => pc'[i] = pc[i]]_vars

\* after the failure an outstanding call returned, and there are entries
\* that were never taken from the stream or never polled
C17_Witness ==
    /\ outcome = "err"
    /\ \E i, j, k \in 1..NumPools :
          /\ pc[i] = "pending" /\ rpc_calls[i] = 0
          /\ pc[j] = "discarded"
          /\ pc[k] = "failed" /\ resp[k] = "err"

\* C18: every record of the registry is stored under its own address field,
\* and both are the lowercase address of the configured pool the record was
\* fetched for.
C18_KeyIsAddress ==
    \A k \in DOMAIN pools :
        /\ pools[k].address = k
        /\ \E i \in 1..NumPools :
              pools_cfg[i].address = k /\ pools[k].address = lowercase_address(k)

\* the fetch of entry i has completed successfully and its task has inserted
FetchedOk(i) == pc[i] = "done" /\ resp[i] = "ok" /\ ParsesOk(i)

\* C19: permit conservation.  Free permits plus tasks holding a permit make
\* the cap in every reachable state.  A permit is taken one at a time, by a
\* task that holds none, in the step that issues its RPC call, and is given
\* back in the step in which the task ends, by success, by failure or by
\* being dropped.
C19_PermitConservation ==
    /\ [](/\ permits + Cardinality(PermitHolders) = max_concurrency
          /\ permits \in 0..max_concurrency
          /\ outcome # "running" => permits = max_concurrency)
    /\ [][\A i \in 1..NumPools :
            /\ rpc_calls'[i] > rpc_calls[i] =>
                  /\ i \notin PermitHolders
                  /\ pc'[i] = "fetching"
                  /\ permits' = permits - 1
            /\ (pc[i] = "fetching" /\ pc'[i] # "fetching") => permits' > permits]_vars
    /\ [][permits' < permits =>
            \E i \in 1..NumPools :
               /\ pc[i] = "queued" /\ pc'[i] = "fetching"
               /\ \A j \in 1..NumPools : j # i => pc'[j] = pc[j]]_vars

\* the call failed while two other fetches held permits; all are free again
C19_Witness ==
    /\ outcome = "err"
    /\ permits = max_concurrency
    /\ max_concurrency = 3
    /\ \E i, j, k \in 1..NumPools :
          /\ pc[i] = "failed" /\ resp[i] = "err"
          /\ pc[j] \in {"cancelled", "discarded"}
          /\ pc[k] \in {"cancelled", "discarded"}
          /\ j # k

\* C20: an address is a key of the registry only if the fetch of a
\* configured entry with that address has completed successfully, and the
\* record is that of such an entry; a task whose fetch failed, is in flight
\* or was never started has inserted nothing.
C20_OnlySuccessfulFetches ==
    /\ [](\A k \in DOMAIN pools :
            \E i \in 1..NumPools :
               /\ pools_cfg[i].address = k
               /\ FetchedOk(i)
               /\ pools[k] = PoolOf(i))
    /\ [][pools' # pools =>
            \E j \in 1..NumPools : ~FetchedOk(j) /\ FetchedOk(j)']_vars

\* a pool is stored, the fetch of another address failed and a third entry
\* was never started; neither is in the registry
C20_Witness ==
    \E i, j, k \in 1..NumPools :
        /\ FetchedOk(j)
        /\ pools_cfg[j].address \in DOMAIN pools
        /\ pc[i] = "failed" /\ resp[i] = "err"
        /\ pools_cfg[i].address \notin DOMAIN pools
        /\ pc[k] \in {"pending", "dropped", "cancelled"}
        /\ pools_cfg[k].address \notin DOMAIN pools

\* try_collect has returned Ok and Arc::try_unwrap runs in this step
Unwraps == outcome = "running" /\ outcome' # "running" /\ pc' = pc

\* C21: on the success path the extraction of the registry never fails.
\* While the call runs the map is referenced by the function and by the
\* futures in the buffer and by nothing else; when Arc::try_unwrap runs
\* every task has finished and the function holds the only reference, so
\* the call returns the registry; an error return always has a failed task
\* behind it, and a call in which every fetch succeeded never returns one.
C21_UnwrapNeverFails ==
    /\ [](outcome = "running" => pools_refs = 1 + Cardinality(InProgress))
    /\ [][Unwraps =>
            /\ \A i \in 1..NumPools : pc[i] = "done"
            /\ pools_refs = 1
            /\ outcome' = "ok"
            /\ result' = Returned(pools)]_vars
    /\ [](outcome = "err" => \E i \in 1..NumPools : pc[i] = "failed")
    /\ []((outcome # "running" /\ \A i \in 1..NumPools : pc[i] = "done")
            => outcome = "ok" /\ result = Returned(pools))

\* three pools were fetched through a buffer of two and the map was
\* extracted
C21_Witness ==
    /\ outcome = "ok"
    /\ result = Returned(pools)
    /\ pools_refs = 0
    /\ NumPools = 3
    /\ max_concurrency = 2
    /\ Cardinality(DOMAIN pools) >= 2
====
